---- MODULE Spec2Model ----
(***************************************************************************)
(* A model of `vcs compare` (vcstool/commands/compare.py): the entry       *)
(* classification, the merge of facts and manifest into the entry map, the *)
(* three-phase width fitting of CompareTable and the legend flags.         *)
(*                                                                         *)
(* Strings are sequences of one-character strings, so that len(), slicing  *)
(* and concatenation are computed as the code computes them.  None is the  *)
(* one-element sequence <<"<None>">>, which no string equals.              *)
(***************************************************************************)
EXTENDS Integers, Sequences, FiniteSets

VARIABLES
    pc,                      \* position in main / CompareTable.__init__
    args,                    \* parsed command line: skip_equal, skip_hide_cols
    manifest_file,           \* main's manifest_file (None when not located)
    manifest_exists,         \* the file system: os.path.exists(manifest_file)
    manifest_per_path,       \* dict path -> manifest entry, in file order
    result,                  \* main's result: what CompareCommand.execute() returned
    compare_output_per_path, \* dict path -> CompareOutput, in result order
    entries,                 \* dict path -> table entry, in insertion order
    table,                   \* the CompareTable object
    renders,                 \* calls of _reset_and_add_entries in this construction
    builds,                  \* CompareTable constructions on this entry map
    first_build,             \* the table and entries as the first construction left them
    stdout,                  \* what main printed: "" or the report
    stderr,                  \* messages print_err wrote, in order
    exit                     \* "running", "return0", "return1" or "exception"

vars == <<pc, args, manifest_file, manifest_exists, manifest_per_path,
          result, compare_output_per_path, entries, table, renders, builds,
          first_build, stdout, stderr, exit>>

----------------------------------------------------------------------------
(* Bounds of the model *)

\* ahead and behind range over 0..MaxCount in the facts the executor returns
MaxCount == 1
\* length of the long branch name (longer than VERSION_MAX_LENGTH)
LongLen == 38

----------------------------------------------------------------------------
(* Strings *)

None == <<"<None>">>
Empty == << >>

Rep(c, n) == [i \in 1..n |-> c]

Main == <<"m", "a", "i", "n">>
Develop == <<"d", "e", "v", "e", "l", "o", "p">>
FeaturePrefix == <<"f", "e", "a", "t", "u", "r", "e", "/">>
LongBranch == FeaturePrefix \o Rep("x", LongLen - Len(FeaturePrefix))
Origin == <<"o", "r", "i", "g", "i", "n">>
HashA == Rep("a", 40)
HashB == Rep("b", 40)
ShortHash == <<"a", "1", "b", "2", "c", "3", "d">>
DetachedPrefix ==
    <<"(", "H", "E", "A", "D", " ", "d", "e", "t", "a", "c", "h", "e", "d",
      " ", "a", "t", " ">>
HeadDetached ==
    <<"H", "E", "A", "D", " ", "d", "e", "t", "a", "c", "h", "e", "d">>
DetachedAt(x) == DetachedPrefix \o x \o <<")">>

Whitespace == {" ", "\t", "\n", "\r"}

Max(S) == CHOOSE m \in S : \A n \in S : n <= m

\* str(n) for the integers the model uses
Digit(d) ==
    CASE d = 0 -> "0" [] d = 1 -> "1" [] d = 2 -> "2" [] d = 3 -> "3"
      [] d = 4 -> "4" [] d = 5 -> "5" [] d = 6 -> "6" [] d = 7 -> "7"
      [] d = 8 -> "8" [] d = 9 -> "9"
RECURSIVE NatToStr(_)
NatToStr(n) == IF n < 10 THEN <<Digit(n)>>
               ELSE NatToStr(n \div 10) \o <<Digit(n % 10)>>
IntToStr(n) == IF n < 0 THEN <<"-">> \o NatToStr(0 - n) ELSE NatToStr(n)

\* code points of the characters paths are made of
Ord(c) ==
    CASE c = "/" -> 47 [] c = "a" -> 97 [] c = "b" -> 98 [] c = "x" -> 120

\* Python's s < t on strings: lexicographic by code point
RECURSIVE StrLess(_, _)
StrLess(s, t) ==
    IF t = << >> THEN FALSE
    ELSE IF s = << >> THEN TRUE
    ELSE IF Head(s) # Head(t) THEN Ord(Head(s)) < Ord(Head(t))
    ELSE StrLess(Tail(s), Tail(t))

\* sorted(keys)
RECURSIVE Sorted(_)
Sorted(S) ==
    IF S = {} THEN << >>
    ELSE LET m == CHOOSE p \in S : \A q \in S : p = q \/ StrLess(p, q)
         IN <<m>> \o Sorted(S \ {m})

----------------------------------------------------------------------------
(* Dicts: sequences of [key, value] in insertion order *)

Keys(d) == {d[i].key : i \in 1..Len(d)}
KeyList(d) == [i \in 1..Len(d) |-> d[i].key]
Get(d, k) == (CHOOSE i \in 1..Len(d) : d[i].key = k)
Lookup(d, k) == d[Get(d, k)].value
\* d[k] = v
DictSet(d, k, v) ==
    IF k \in Keys(d) THEN [d EXCEPT ![Get(d, k)].value = v]
    ELSE Append(d, [key |-> k, value |-> v])

----------------------------------------------------------------------------
(* Configuration constants and enums *)

HASH_MAX_LENGTH == 7
VERSION_MAX_LENGTH == 35
DISPLAY_WIDTH_MARGIN == 8
HASH_NUM_CHARACTERS == 40

RepoStatus == {"NOMINAL", "UNTRACKED"}
VcsTrackingStatus == {"EQUAL", "LOCAL", "BEHIND", "AHEAD", "DIVERGED", "ERROR"}
LegendFlags == {"MISSING_REPO", "VCS_TRACKING_STATUS", "REPO_STATUS", "IS_NARROWED"}

STATUS_HEADER == "S"
PATH_HEADER == "Path"
FLAGS_HEADER == "Flags"
MANIFEST_VERSION_HEADER == "Manifest"
LOCAL_VERSION_HEADER == "Local Version"
TRACKING_STATUS_HEADER == "Ah/Bh"
REMOTE_VERSION_HEADER == "Remote Version"
DUMMY_END_HEADER == ""

HEADERS ==
    <<STATUS_HEADER, PATH_HEADER, FLAGS_HEADER, MANIFEST_VERSION_HEADER,
      LOCAL_VERSION_HEADER, TRACKING_STATUS_HEADER, REMOTE_VERSION_HEADER>>

HEADER_HIDE_ORDER ==
    <<REMOTE_VERSION_HEADER, MANIFEST_VERSION_HEADER, TRACKING_STATUS_HEADER,
      LOCAL_VERSION_HEADER, FLAGS_HEADER, STATUS_HEADER>>

MAX_HIDE_COLUMNS == Len(HEADER_HIDE_ORDER)

\* len() of a header as the table prints it
HeaderLen(h) ==
    CASE h = STATUS_HEADER -> 1
      [] h = PATH_HEADER -> 4
      [] h = FLAGS_HEADER -> 5
      [] h = MANIFEST_VERSION_HEADER -> 8
      [] h = LOCAL_VERSION_HEADER -> 13
      [] h = TRACKING_STATUS_HEADER -> 5
      [] h = REMOTE_VERSION_HEADER -> 14
      [] h = DUMMY_END_HEADER -> 0

----------------------------------------------------------------------------
(* outputs.py: CompareOutput *)

CompareOutput(lv, rv, lh, rh, r, a, b, un, st, ut, sh) ==
    [local_version |-> lv, remote_version |-> rv, tag |-> Empty,
     local_hash |-> lh, remote_hash |-> rh, remote |-> r,
     ahead |-> a, behind |-> b,
     unstaged_changes |-> un, staged_changes |-> st,
     untracked_files |-> ut, stashes |-> sh]

IsPrefix(p, s) == Len(p) <= Len(s) /\ SubSeq(s, 1, Len(p)) = p

\* re.match(r"\(HEAD detached at (\S+)\)", s): the positions of a ")" that can
\* close the match; \S+ is greedy, so the match ends at the last of them
DetachedCloses(s) ==
    IF ~IsPrefix(DetachedPrefix, s) THEN {}
    ELSE {j \in (Len(DetachedPrefix) + 2)..Len(s) :
            /\ s[j] = ")"
            /\ \A i \in (Len(DetachedPrefix) + 1)..(j - 1) : s[i] \notin Whitespace}

\* mutant: the group is matched lazily, so the match ends at the first ")"
Mut_fix_detached_head(co) ==
    IF DetachedCloses(co.local_version) = {} THEN co
    ELSE [co EXCEPT
            !.local_version = HeadDetached,
            !.local_hash =
                SubSeq(co.local_version, Len(DetachedPrefix) + 1,
                       (CHOOSE j \in DetachedCloses(co.local_version) :
                            \A k \in DetachedCloses(co.local_version) : j <= k) - 1)]

fix_detached_head(co) ==
    IF DetachedCloses(co.local_version) = {} THEN co
    ELSE [co EXCEPT
            !.local_version = HeadDetached,
            !.local_hash = SubSeq(co.local_version, Len(DetachedPrefix) + 1,
                                  Max(DetachedCloses(co.local_version)) - 1)]

----------------------------------------------------------------------------
(* CompareOutputEntry: classification *)

_get_repo_status(manifest_version) ==
    IF manifest_version = None THEN "UNTRACKED" ELSE "NOMINAL"

_get_vcs_tracking_flags(co) ==
    <<IF co.unstaged_changes THEN "*" ELSE " ",
      IF co.staged_changes THEN "+" ELSE " ",
      IF co.untracked_files THEN "%" ELSE " ",
      IF co.stashes THEN "$" ELSE " ">>

\* mutant: the comparisons are "!= 0" and nothing falls through to ERROR
Mut_get_tracking_status(co) ==
    IF co.remote_version = Empty THEN "LOCAL"
    ELSE IF co.ahead = 0 /\ co.behind = 0 THEN "EQUAL"
    ELSE IF co.ahead = 0 THEN "BEHIND"
    ELSE IF co.behind = 0 THEN "AHEAD"
    ELSE "DIVERGED"

_get_tracking_status(co) ==
    IF co.remote_version = Empty THEN "LOCAL"
    ELSE IF co.ahead = 0 /\ co.behind = 0 THEN "EQUAL"
    ELSE IF co.ahead = 0 /\ co.behind > 0 THEN "BEHIND"
    ELSE IF co.ahead > 0 /\ co.behind = 0 THEN "AHEAD"
    ELSE IF co.ahead > 0 /\ co.behind > 0 THEN "DIVERGED"
    ELSE "ERROR"

\* CompareOutputEntry.__init__
CompareOutputEntry(path, compare_output, manifest_version) ==
    LET co == fix_detached_head(compare_output) IN
    [kind |-> "tracked",
     path |-> path,
     compare_output |-> co,
     manifest_version |-> manifest_version,
     is_local_current_with_manifest |->
        manifest_version \in {co.local_version, co.local_hash},
     is_remote_current_with_manifest |->
        manifest_version \in {co.remote_version, co.remote_hash},
     vcs_tracking_flags |-> _get_vcs_tracking_flags(co),
     repo_status |-> _get_repo_status(manifest_version),
     vcs_tracking_status |-> _get_tracking_status(co),
     should_abbreviate_version |-> FALSE]

\* MissingManifestEntry.__init__
MissingManifestEntry(path, manifest_version) ==
    [kind |-> "missing", path |-> path, manifest_version |-> manifest_version]

\* mutant: stashes count towards dirtiness
Mut_is_dirty(e) ==
    \/ e.compare_output.unstaged_changes
    \/ e.compare_output.staged_changes
    \/ e.compare_output.untracked_files
    \/ e.compare_output.stashes

_is_dirty(e) ==
    \/ e.compare_output.unstaged_changes
    \/ e.compare_output.staged_changes
    \/ e.compare_output.untracked_files

\* mutant: the last condition reads the is-local-current flag
Mut_is_significant(e) ==
    IF e.kind = "missing" THEN TRUE
    ELSE \/ _is_dirty(e)
         \/ e.vcs_tracking_status # "EQUAL"
         \/ e.repo_status # "NOMINAL"
         \/ ~e.is_local_current_with_manifest

\* CompareOutputEntry.is_significant / MissingManifestEntry.is_significant
is_significant(e) ==
    IF e.kind = "missing" THEN TRUE
    ELSE \/ _is_dirty(e)
         \/ e.vcs_tracking_status # "EQUAL"
         \/ e.repo_status # "NOMINAL"
         \/ e.manifest_version # e.compare_output.local_version

\* str.strip() != ""
StripNonEmpty(s) == \E i \in 1..Len(s) : s[i] \notin Whitespace

\* mutant: the flags string is replaced by the dirtiness test, which ignores
\* stashes
Mut_get_legend_flags(e) ==
    IF e.kind = "missing" THEN {"REPO_STATUS", "MISSING_REPO"}
    ELSE (IF e.vcs_tracking_status # "EQUAL" \/ _is_dirty(e)
          THEN {"VCS_TRACKING_STATUS"} ELSE {})
         \cup (IF e.repo_status # "NOMINAL" THEN {"REPO_STATUS"} ELSE {})

\* CompareOutputEntry.get_legend_flags / MissingManifestEntry.get_legend_flags
get_legend_flags(e) ==
    IF e.kind = "missing" THEN {"REPO_STATUS", "MISSING_REPO"}
    ELSE (IF \/ e.vcs_tracking_status # "EQUAL"
             \/ StripNonEmpty(e.vcs_tracking_flags)
          THEN {"VCS_TRACKING_STATUS"} ELSE {})
         \cup (IF e.repo_status # "NOMINAL" THEN {"REPO_STATUS"} ELSE {})

----------------------------------------------------------------------------
(* Cells: a cell is the foreground color code in front of it and its text *)

Cell(fg, text) == [fg |-> fg, text |-> text]
EmptyCell == Cell("", Empty)

is_probably_a_hash(the_hash) == Len(the_hash) = HASH_NUM_CHARACTERS

ELLIPSIS == <<".", ".", ".">>

\* mutant: the abbreviation flag is not consulted
Mut_get_abbreviated_version(e, version) ==
    IF Len(version) <= VERSION_MAX_LENGTH THEN version
    ELSE SubSeq(version, 1, VERSION_MAX_LENGTH - Len(ELLIPSIS)) \o ELLIPSIS

_get_abbreviated_version(e, version) ==
    IF e.should_abbreviate_version = FALSE THEN version
    ELSE IF Len(version) <= VERSION_MAX_LENGTH THEN version
    ELSE SubSeq(version, 1, VERSION_MAX_LENGTH - Len(ELLIPSIS)) \o ELLIPSIS

_get_abbreviated_hash(the_hash) ==
    IF is_probably_a_hash(the_hash) = FALSE THEN the_hash
    ELSE IF Len(the_hash) <= HASH_MAX_LENGTH THEN the_hash
    ELSE SubSeq(the_hash, 1, HASH_MAX_LENGTH)

Master == <<"m", "a", "s", "t", "e", "r">>
Azevtec == <<"a", "z", "e", "v", "t", "e", "c">>
Outrider == <<"o", "u", "t", "r", "i", "d", "e", "r">>
BranchPrefixes ==
    {<<"b", "u", "g", "f", "i", "x", "/">>, <<"d", "e", "m", "o", "/">>,
     FeaturePrefix, <<"h", "o", "t", "f", "i", "x", "/">>,
     <<"i", "n", "t", "/">>, <<"p", "i", "l", "o", "t", "/">>,
     <<"r", "e", "l", "e", "a", "s", "e", "/">>}

_is_valid_branch_name(branch_name) ==
    \/ branch_name \in {Master, Develop, Azevtec, Outrider}
    \/ \E prefix \in BranchPrefixes : IsPrefix(prefix, branch_name)

_get_local_foreground_color(e) ==
    IF ~_is_valid_branch_name(e.compare_output.local_version) THEN "redf"
    ELSE IF e.vcs_tracking_status \notin {"EQUAL", "LOCAL"} THEN "brightyellowf"
    ELSE IF e.is_local_current_with_manifest THEN "brightblackf"
    ELSE ""

_get_remote_foreground_color(e) ==
    IF e.vcs_tracking_status \notin {"EQUAL", "LOCAL"} THEN "brightyellowf"
    ELSE IF e.is_remote_current_with_manifest THEN "brightblackf"
    ELSE ""

get_color_repo_status(e) ==
    IF e.kind = "missing" THEN Cell("redf", <<"M">>)
    ELSE IF e.repo_status = "NOMINAL" THEN Cell("brightblackf", <<"r">>)
    ELSE Cell("brightyellowf", <<"U">>)

get_color_path(e) ==
    IF e.kind = "missing" THEN Cell("redf", e.path)
    ELSE Cell(IF is_significant(e) THEN "brightcyanf" ELSE "", e.path)

get_color_vcs_tracking_flags(e) ==
    IF e.kind = "missing" THEN EmptyCell
    ELSE Cell(IF _is_dirty(e) THEN "brightyellowf" ELSE "", e.vcs_tracking_flags)

get_color_manifest_version(e) ==
    IF e.kind = "missing" THEN Cell("", e.manifest_version)
    ELSE IF e.manifest_version = None THEN EmptyCell
    ELSE Cell(IF e.is_local_current_with_manifest THEN "brightblackf" ELSE "",
              IF is_probably_a_hash(e.manifest_version)
              THEN _get_abbreviated_hash(e.manifest_version)
              ELSE e.manifest_version)

get_color_local_version(e) ==
    IF e.kind = "missing" THEN EmptyCell
    ELSE Cell(_get_local_foreground_color(e),
              _get_abbreviated_hash(e.compare_output.local_hash)
              \o <<" ", "(">>
              \o _get_abbreviated_version(e, e.compare_output.local_version)
              \o <<")">>)

get_color_track(e) ==
    IF e.kind = "missing" THEN EmptyCell
    ELSE LET ahead == IntToStr(e.compare_output.ahead)
             behind == IntToStr(e.compare_output.behind)
             status == e.vcs_tracking_status
         IN CASE status = "EQUAL" -> Cell("brightblackf", <<"=", "=">>)
              [] status = "LOCAL" -> Cell("brightblackf", Empty)
              [] status = "AHEAD" -> Cell("brightyellowf", <<"<">> \o ahead)
              [] status = "BEHIND" ->
                    Cell("brightyellowf", <<" ", " ", " ">> \o behind \o <<">">>)
              [] status = "DIVERGED" ->
                    Cell("brightyellowf",
                         <<"<">> \o ahead \o <<",">> \o behind \o <<">">>)
              [] status = "ERROR" -> Cell("redf", <<"E", "R", "R">>)

get_color_remote_version(e) ==
    IF e.kind = "missing" THEN EmptyCell
    ELSE LET remote == e.compare_output.remote
             remote_version ==
                _get_abbreviated_version(e, e.compare_output.remote_version)
         IN IF remote = Empty \/ remote_version = Empty THEN EmptyCell
            ELSE Cell(_get_remote_foreground_color(e),
                      _get_abbreviated_hash(e.compare_output.remote_hash)
                      \o <<" ", "(">> \o remote \o <<"/">> \o remote_version
                      \o <<")">>)

----------------------------------------------------------------------------
(* ICompareTableEntry: rows, headers and column hiding *)

\* list.index(x)
IndexOf(seq, x) ==
    CHOOSE i \in 1..Len(seq) : seq[i] = x /\ \A j \in 1..(i - 1) : seq[j] # x

\* del seq[i]
Del(seq, i) == SubSeq(seq, 1, i - 1) \o SubSeq(seq, i + 1, Len(seq))

Min(a, b) == IF a <= b THEN a ELSE b

\* the loop of get_headers: iterations i..n of `del headers[index(HIDE_ORDER[i])]`
RECURSIVE HideHeaders(_, _, _)
HideHeaders(headers, i, n) ==
    IF i > n THEN headers
    ELSE HideHeaders(Del(headers, IndexOf(headers, HEADER_HIDE_ORDER[i])), i + 1, n)

\* the assertion of get_headers
HeadersAssertion(cols_to_hide) == cols_to_hide <= MAX_HIDE_COLUMNS

get_headers(cols_to_hide) ==
    HideHeaders(HEADERS, 1, cols_to_hide) \o <<DUMMY_END_HEADER>>

\* mutant: the row loses its last columns instead of those of the hide order
Mut_HideRow(headers, row, i, n) == SubSeq(row, 1, Len(row) - (n - i + 1))

\* the loop of _hide_n_columns, which deletes from the headers and from the row
RECURSIVE HideRow(_, _, _, _)
HideRow(headers, row, i, n) ==
    IF i > n THEN row
    ELSE LET idx_of_col_to_hide == IndexOf(headers, HEADER_HIDE_ORDER[i])
         IN HideRow(Del(headers, idx_of_col_to_hide),
                    Del(row, idx_of_col_to_hide), i + 1, n)

\* the dummy end cell is Colors.RESET, outside the background wrapping
DUMMY_END_ROW == [bg |-> "", fg |-> "reset", text |-> Empty]

_hide_n_columns(row, cols_to_hide) ==
    HideRow(HEADERS, row, 1, Min(Len(HEADER_HIDE_ORDER), cols_to_hide))
    \o <<DUMMY_END_ROW>>

_wrap_row_with_background_color(row, is_odd_row) ==
    [i \in 1..Len(row) |->
        [bg |-> IF is_odd_row THEN "reset" ELSE "grey4b",
         fg |-> row[i].fg, text |-> row[i].text]]

get_color_row(e, is_odd_row, cols_to_hide) ==
    _hide_n_columns(
        _wrap_row_with_background_color(
            <<get_color_repo_status(e),
              get_color_path(e),
              get_color_vcs_tracking_flags(e),
              get_color_manifest_version(e),
              get_color_local_version(e),
              get_color_track(e),
              get_color_remote_version(e)>>,
            is_odd_row),
        cols_to_hide)

----------------------------------------------------------------------------
(* CompareTable *)

\* CompareTable._add_entry
_add_entry(t, e) ==
    LET is_odd_row == (Len(t.rows) % 2) = 1 IN
    [t EXCEPT
        !.legend_flags = @ \cup get_legend_flags(e),
        !.rows = Append(@, get_color_row(e, is_odd_row, t.cols_to_hide))]

\* the loop `for path in sorted(self._entries.keys())`
RECURSIVE AddEntries(_, _, _)
AddEntries(t, ents, paths) ==
    IF paths = << >> THEN t
    ELSE AddEntries(_add_entry(t, Lookup(ents, Head(paths))), ents, Tail(paths))

\* mutant: the rows follow the dict's insertion order
Mut_reset_and_add_entries(t, ents) ==
    AddEntries(
        [t EXCEPT
            !.rows = << >>,
            !.field_names = get_headers(t.cols_to_hide),
            !.legend_flags = IF t.cols_to_hide > 0 THEN {"IS_NARROWED"} ELSE {}],
        ents, KeyList(ents))

\* CompareTable._reset_and_add_entries (clear, _format_table, the legend reset,
\* then one row per entry)
_reset_and_add_entries(t, ents) ==
    AddEntries(
        [t EXCEPT
            !.rows = << >>,
            !.field_names = get_headers(t.cols_to_hide),
            !.legend_flags = IF t.cols_to_hide > 0 THEN {"IS_NARROWED"} ELSE {}],
        ents, Sorted(Keys(ents)))

RECURSIVE SeqSum(_)
SeqSum(s) == IF s = << >> THEN 0 ELSE Head(s) + SeqSum(Tail(s))

\* prettytable's column width: the widest of the header and the column's cells
ColumnWidth(t, i) ==
    Max({HeaderLen(t.field_names[i])}
        \cup {Len(t.rows[r][i].text) : r \in 1..Len(t.rows)})

\* CompareTable._table_width: with vrules NONE prettytable's table width is the
\* sum of the column widths, each padded by one space on either side
_table_width(t) ==
    SeqSum([i \in 1..Len(t.field_names) |-> ColumnWidth(t, i) + 2])

\* mutant: the fitting flag is not consulted
Mut_is_narrow_enough(t) == _table_width(t) <= t.display_width

_is_narrow_enough(t) ==
    ~t.should_hide_cols \/ _table_width(t) <= t.display_width

\* mutant: the loop gives up one column early
Mut_can_hide_more_cols(t) == t.cols_to_hide < MAX_HIDE_COLUMNS - 1

\* mutant: the comparison admits the bound itself
Mut_can_hide_one_more(t) == t.cols_to_hide <= MAX_HIDE_COLUMNS

_can_hide_more_cols(t) == t.cols_to_hide < MAX_HIDE_COLUMNS

\* os.get_terminal_size().columns - DISPLAY_WIDTH_MARGIN
_get_default_display_width(columns) == columns - DISPLAY_WIDTH_MARGIN

\* `display_width or self._get_default_display_width()`; display_width is
\* [given |-> FALSE] for None
DisplayWidthOr(display_width, columns) ==
    IF display_width.given /\ display_width.value # 0 THEN display_width.value
    ELSE _get_default_display_width(columns)

\* CompareTable.__init__ up to its first render
NewTable(ents, should_hide_cols, display_width, columns) ==
    _reset_and_add_entries(
        [field_names |-> << >>, rows |-> << >>, legend_flags |-> {},
         display_width |-> DisplayWidthOr(display_width, columns),
         should_hide_cols |-> should_hide_cols,
         cols_to_hide |-> 0],
        ents)

\* mutant: the versions are shortened in the entry itself, not at render time
Mut_SetAbbreviate(e) ==
    IF e.kind = "missing"
    THEN [kind |-> "missing", path |-> e.path,
          manifest_version |-> _get_abbreviated_hash(e.manifest_version),
          should_abbreviate_version |-> TRUE]
    ELSE [e EXCEPT !.should_abbreviate_version = TRUE,
                   !.manifest_version = _get_abbreviated_hash(@)]

\* `entry.should_abbreviate_version = True`: on a MissingManifestEntry the
\* assignment creates the attribute
SetAbbreviate(e) ==
    IF e.kind = "missing"
    THEN [kind |-> "missing", path |-> e.path,
          manifest_version |-> e.manifest_version,
          should_abbreviate_version |-> TRUE]
    ELSE [e EXCEPT !.should_abbreviate_version = TRUE]

\* mutant: the flag is set on copies of the entries, the map keeps its own
Mut_AbbreviateAll(ents) == ents

AbbreviateAll(ents) ==
    [i \in 1..Len(ents) |-> [key |-> ents[i].key, value |-> SetAbbreviate(ents[i].value)]]

----------------------------------------------------------------------------
(* Merge of facts and manifest *)

\* a manifest entry without a "version" key
NoKey == <<"<no key>">>

\* manifest_per_path[path].get("version", None)
get_manifest_version(manifest, path) ==
    IF path \notin Keys(manifest) THEN None
    ELSE IF Lookup(manifest, path).version = NoKey THEN None
    ELSE Lookup(manifest, path).version

\* first loop of generate_table_entries, from item i on
RECURSIVE AddTracked(_, _, _, _, _)
AddTracked(ents, outputs, manifest, significant_only, i) ==
    IF i > Len(outputs) THEN ents
    ELSE LET path == outputs[i].key
             entry == CompareOutputEntry(path, outputs[i].value,
                                         get_manifest_version(manifest, path))
         IN AddTracked(IF significant_only /\ ~is_significant(entry) THEN ents
                       ELSE DictSet(ents, path, entry),
                       outputs, manifest, significant_only, i + 1)

\* second loop of generate_table_entries, from item i on
RECURSIVE AddMissing(_, _, _, _)
AddMissing(ents, outputs, manifest, i) ==
    IF i > Len(manifest) THEN ents
    ELSE AddMissing(IF manifest[i].key \notin Keys(outputs)
                    THEN DictSet(ents, manifest[i].key,
                                 MissingManifestEntry(manifest[i].key,
                                                      manifest[i].value.version))
                    ELSE ents,
                    outputs, manifest, i + 1)

\* manifest["version"] raises KeyError in the second loop
MissingRaises(outputs, manifest) ==
    \E i \in 1..Len(manifest) :
        manifest[i].key \notin Keys(outputs) /\ manifest[i].value.version = NoKey

generate_table_entries(outputs, manifest, significant_only) ==
    AddMissing(AddTracked(<< >>, outputs, manifest, significant_only, 1),
               outputs, manifest, 1)

\* CompareOutputEntry.__init__ calls fix_detached_head on the CompareOutput
\* object it is given: the dict of outputs holds the fixed objects afterwards
FixedInPlace(outputs) ==
    [i \in 1..Len(outputs) |->
        [key |-> outputs[i].key, value |-> fix_detached_head(outputs[i].value)]]

\* the same CompareOutput objects are the "output" of the results that
\* succeeded
FixedResults(results) ==
    [i \in 1..Len(results) |->
        IF results[i].returncode # 0 THEN results[i]
        ELSE [results[i] EXCEPT !.output = fix_detached_head(@)]]

\* filter_compare_output_per_path, from result i on
RECURSIVE filter_compare_output_per_path(_, _, _)
filter_compare_output_per_path(out, results, i) ==
    IF i > Len(results) THEN out
    ELSE filter_compare_output_per_path(
            IF results[i].returncode # 0 THEN out
            ELSE DictSet(out, results[i].path, results[i].output),
            results, i + 1)

\* the print_err calls of filter_compare_output_per_path
RECURSIVE FilterErrors(_, _)
FilterErrors(results, i) ==
    IF i > Len(results) THEN << >>
    ELSE (IF results[i].returncode # 0 THEN <<"Compare command failed">> ELSE << >>)
         \o FilterErrors(results, i + 1)

----------------------------------------------------------------------------
(* Inputs *)

PathB == <<"b">>
PathAX == <<"a", "/", "x">>
Paths == {PathB, PathAX}

\* the dicts with keys among P (at most two) and values in V, in every order
Dicts(P, V) ==
    {<< >>}
    \cup {<<[key |-> p, value |-> v]>> : p \in P, v \in V}
    \cup {<<[key |-> pq[1], value |-> vw[1]], [key |-> pq[2], value |-> vw[2]]>> :
            pq \in {x \in P \X P : x[1] # x[2]}, vw \in V \X V}

ManifestValues == {[version |-> NoKey], [version |-> Main], [version |-> HashA]}
Manifests(P) == Dicts(P, ManifestValues)

\* the facts of the table runs: a clean checkout, the same with a stash, a
\* long feature branch ahead of its remote with local changes, and a detached
\* head without a remote
CleanFact ==
    CompareOutput(Main, Main, HashA, HashA, Origin, 0, 0,
                  FALSE, FALSE, FALSE, FALSE)
StashFact ==
    CompareOutput(Main, Main, HashA, HashA, Origin, 0, 0,
                  FALSE, FALSE, FALSE, TRUE)
LongFact ==
    CompareOutput(LongBranch, LongBranch, HashA, HashB, Origin, MaxCount, 0,
                  TRUE, FALSE, FALSE, FALSE)
DetachedFact ==
    CompareOutput(DetachedAt(ShortHash), Empty, HashB, Empty, Empty, 0, 0,
                  FALSE, FALSE, FALSE, FALSE)
TableFacts == {CleanFact, StashFact, LongFact, DetachedFact}

\* the facts of the classification runs: every combination, with the negative
\* counts a malformed upstream could report
LocalVersions == {Main, DetachedAt(ShortHash)}
RemoteVersions == {Empty, Main}
Counts == -1..MaxCount
AllFacts ==
    {CompareOutput(lv, rv, HashA, IF rv = Empty THEN Empty ELSE HashA,
                   IF rv = Empty THEN Empty ELSE Origin, a, b, un, st, ut, sh) :
        lv \in LocalVersions, rv \in RemoteVersions, a \in Counts, b \in Counts,
        un \in BOOLEAN, st \in BOOLEAN, ut \in BOOLEAN, sh \in BOOLEAN}

\* the results of CompareCommand.execute(): per repository a CompareOutput or
\* a failure, in the order the jobs finished
ResultValues(F) ==
    {[returncode |-> 1, output |-> Empty]}
    \cup {[returncode |-> 0, output |-> f] : f \in F}
Results(P, F) ==
    {[i \in 1..Len(d) |->
        [path |-> d[i].key, returncode |-> d[i].value.returncode,
         output |-> d[i].value.output]] : d \in Dicts(P, ResultValues(F))}

\* os.get_terminal_size().columns
TermCols == {7, 16, 24, 48, 96, 148}

ManifestName == <<"w", "s", ".", "r", "e", "p", "o", "s">>

NoTable ==
    [field_names |-> << >>, rows |-> << >>, legend_flags |-> {},
     display_width |-> 0, should_hide_cols |-> FALSE, cols_to_hide |-> 0]

----------------------------------------------------------------------------
(* main *)

Init ==
    /\ pc = "start"
    /\ args \in [skip_equal : BOOLEAN, skip_hide_cols : BOOLEAN]
    /\ manifest_file = None
    /\ manifest_exists = FALSE
    /\ manifest_per_path = << >>
    /\ result = << >>
    /\ compare_output_per_path = << >>
    /\ entries = << >>
    /\ table = NoTable
    /\ renders = 0
    /\ builds = 0
    /\ first_build = [table |-> NoTable, entries |-> << >>]
    /\ stdout = << >>
    /\ stderr = << >>
    /\ exit = "running"

\* get_manifest_file; matches is glob.glob("*.repos"), as many names as it found
get_manifest_file(manifest_file_in, matches) ==
    IF manifest_file_in # Empty THEN manifest_file_in
    ELSE IF matches = 1 THEN ManifestName
    ELSE None

\* main, lines 815-819: locate the manifest file; input is args.input, read
\* here only
GetManifestFile ==
    /\ pc = "start"
    /\ \E input \in {Empty, ManifestName}, matches \in 0..2, exists \in BOOLEAN :
        LET file == get_manifest_file(input, matches) IN
        /\ input = Empty => exists
        /\ manifest_file' = file
        /\ IF file = None
           THEN /\ stderr' = Append(stderr, "Multiple possible manifest files")
                /\ exit' = "return1"
                /\ pc' = "done"
                /\ UNCHANGED manifest_exists
           ELSE /\ manifest_exists' = exists
                /\ stderr' = IF exists THEN stderr
                             ELSE Append(stderr, "Manifest file does not exist")
                /\ pc' = "read"
                /\ UNCHANGED exit
    /\ UNCHANGED <<args, manifest_per_path, result, compare_output_per_path, entries,
                   table, renders, builds, first_build, stdout>>

\* main, lines 821-823: read_repos_from_manifest_file.  open() raises OSError
\* (not caught) on a missing or unreadable file; get_repositories raises
\* RuntimeError (caught, printed, None returned) on invalid content.
ReadManifest ==
    /\ pc = "read"
    /\ \/ /\ ~manifest_exists
          /\ exit' = "exception"
          /\ pc' = "done"
          /\ UNCHANGED <<manifest_per_path, stderr>>
       \/ /\ manifest_exists
          /\ \E outcome \in {"unreadable", "invalid"} :
                /\ exit' = IF outcome = "unreadable" THEN "exception" ELSE "return1"
                /\ stderr' = IF outcome = "unreadable" THEN stderr
                             ELSE Append(stderr, "Input data is not valid")
          /\ pc' = "done"
          /\ UNCHANGED manifest_per_path
       \/ /\ manifest_exists
          /\ manifest_per_path' \in Manifests(Paths)
          /\ pc' = "execute"
          /\ UNCHANGED <<exit, stderr>>
    /\ UNCHANGED <<args, manifest_file, manifest_exists, result, compare_output_per_path,
                   entries, table, renders, builds, first_build, stdout>>

\* main, lines 825-830: run the compare command in every repository found and
\* keep the outputs of those that succeeded
ExecuteWith(ResultSet) ==
    /\ pc = "execute"
    /\ \E results \in ResultSet :
        LET outputs == filter_compare_output_per_path(<< >>, results, 1) IN
        /\ result' = results
        /\ compare_output_per_path' = outputs
        /\ stderr' = stderr \o FilterErrors(results, 1)
        /\ IF Len(outputs) = 0
           THEN exit' = "return1" /\ pc' = "done"
           ELSE exit' = exit /\ pc' = "generate"
    /\ UNCHANGED <<args, manifest_file, manifest_exists, manifest_per_path,
                   entries, table, renders, builds, first_build, stdout>>

Execute == ExecuteWith(Results(Paths, TableFacts))

\* main, lines 832-836: generate_table_entries
GenerateEntries ==
    /\ pc = "generate"
    /\ compare_output_per_path' = FixedInPlace(compare_output_per_path)
    /\ result' = FixedResults(result)
    /\ IF MissingRaises(compare_output_per_path, manifest_per_path)
       THEN /\ exit' = "exception"
            /\ pc' = "done"
            /\ UNCHANGED entries
       ELSE /\ entries' = generate_table_entries(compare_output_per_path,
                                                 manifest_per_path, args.skip_equal)
            /\ pc' = "construct"
            /\ UNCHANGED exit
    /\ UNCHANGED <<args, manifest_file, manifest_exists, manifest_per_path,
                   table, renders, builds, first_build, stdout, stderr>>

----------------------------------------------------------------------------
(* CompareTable.__init__, one step per render *)

\* __init__ returns: the table is built
Built(t, ents) ==
    /\ pc' = "built"
    /\ first_build' = IF builds = 1 THEN [table |-> t, entries |-> ents]
                      ELSE first_build

\* lines 394-402: the fields and the full render.  main passes no
\* display_width, so the budget comes from the terminal.
Construct ==
    /\ pc = "construct"
    /\ \E columns \in TermCols :
        table' = NewTable(entries, ~args.skip_hide_cols, [given |-> FALSE], columns)
    /\ renders' = 1
    /\ builds' = builds + 1
    /\ pc' = "phase1"
    /\ UNCHANGED <<args, manifest_file, manifest_exists, manifest_per_path,
                   result, compare_output_per_path, entries, first_build, stdout,
                   stderr, exit>>

\* lines 403-409: return if the full render fits, else abbreviate and re-render
Phase1 ==
    /\ pc = "phase1"
    /\ IF _is_narrow_enough(table)
       THEN /\ Built(table, entries)
            /\ UNCHANGED <<entries, table, renders>>
       ELSE /\ entries' = AbbreviateAll(entries)
            /\ table' = _reset_and_add_entries(table, entries')
            /\ renders' = renders + 1
            /\ pc' = "phase2"
            /\ UNCHANGED first_build
    /\ UNCHANGED <<args, manifest_file, manifest_exists, manifest_per_path,
                   result, compare_output_per_path, builds, stdout, stderr, exit>>

\* lines 410-411: return if the abbreviated render fits
Phase2 ==
    /\ pc = "phase2"
    /\ IF _is_narrow_enough(table)
       THEN Built(table, entries)
       ELSE pc' = "loop" /\ UNCHANGED first_build
    /\ UNCHANGED <<args, manifest_file, manifest_exists, manifest_per_path,
                   result, compare_output_per_path, entries, table, renders, builds,
                   stdout, stderr, exit>>

\* lines 415-417: one test of the while condition and, if it holds, one
\* iteration: hide one more column and re-render.  _format_table's
\* get_headers asserts cols_to_hide <= MAX_HIDE_COLUMNS.
Loop ==
    /\ pc = "loop"
    /\ IF ~_is_narrow_enough(table) /\ _can_hide_more_cols(table)
       THEN LET t == [table EXCEPT !.cols_to_hide = @ + 1] IN
            IF HeadersAssertion(t.cols_to_hide)
            THEN /\ table' = _reset_and_add_entries(t, entries)
                 /\ renders' = renders + 1
                 /\ UNCHANGED <<pc, first_build, exit>>
            ELSE /\ table' = t
                 /\ exit' = "exception"
                 /\ pc' = "done"
                 /\ UNCHANGED <<renders, first_build>>
       ELSE /\ Built(table, entries)
            /\ UNCHANGED <<table, renders, exit>>
    /\ UNCHANGED <<args, manifest_file, manifest_exists, manifest_per_path,
                   result, compare_output_per_path, entries, builds, stdout, stderr>>

\* main, lines 838-845: print(CompareTable(...)); __str__ is "" for a table
\* with no rows, else the table followed by the legend
PrintReport ==
    /\ pc = "built"
    /\ builds = 1
    /\ stdout' = Append(stdout, IF Len(table.rows) = 0 THEN "" ELSE "table")
    /\ exit' = "return0"
    /\ pc' = "done"
    /\ UNCHANGED <<args, manifest_file, manifest_exists, manifest_per_path,
                   result, compare_output_per_path, entries, table, renders, builds,
                   first_build, stderr>>

\* a second CompareTable built from the same entry objects, with the same
\* width budget and the same fitting flag
Rebuild ==
    /\ pc = "built"
    /\ builds = 1
    /\ table' = NewTable(entries, table.should_hide_cols,
                         [given |-> TRUE, value |-> table.display_width],
                         table.display_width + DISPLAY_WIDTH_MARGIN)
    /\ renders' = 1
    /\ builds' = builds + 1
    /\ pc' = "phase1"
    /\ UNCHANGED <<args, manifest_file, manifest_exists, manifest_per_path,
                   result, compare_output_per_path, entries, first_build, stdout,
                   stderr, exit>>

Next ==
    \/ GetManifestFile
    \/ ReadManifest
    \/ Execute
    \/ GenerateEntries
    \/ Construct
    \/ Phase1
    \/ Phase2
    \/ Loop
    \/ PrintReport

Spec == Init /\ [][Next]_vars

\* the runs in which a client builds a second table from the entry map
NextRebuild ==
    \/ Next
    \/ Rebuild

SpecRebuild == Init /\ [][NextRebuild]_vars

----------------------------------------------------------------------------
(* The classification runs: one repository with any fact, a second path that
   only the manifest may declare, from the point where the manifest is read *)

InitFacts ==
    /\ pc = "execute"
    /\ args \in [skip_equal : BOOLEAN, skip_hide_cols : {FALSE}]
    /\ manifest_file = ManifestName
    /\ manifest_exists = TRUE
    /\ manifest_per_path \in Manifests(Paths)
    /\ result = << >>
    /\ compare_output_per_path = << >>
    /\ entries = << >>
    /\ table = NoTable
    /\ renders = 0
    /\ builds = 0
    /\ first_build = [table |-> NoTable, entries |-> << >>]
    /\ stdout = << >>
    /\ stderr = << >>
    /\ exit = "running"

ExecuteFacts == ExecuteWith(Results({PathB}, AllFacts))

NextFacts ==
    \/ ExecuteFacts
    \/ GenerateEntries

SpecFacts == InitFacts /\ [][NextFacts]_vars

----------------------------------------------------------------------------
(* The detached-head runs: one repository whose local_version is a branch, a
   detached head at a commit or at a tag, a head detached "from" a commit, or
   the normalized text itself; the manifest may pin the branch, the commit
   or the full hash *)

TagParen == <<"v", "1", ")">>
DetachedFrom(x) ==
    <<"(", "H", "E", "A", "D", " ", "d", "e", "t", "a", "c", "h", "e", "d",
      " ", "f", "r", "o", "m", " ">> \o x \o <<")">>

DetachedVersions ==
    {Main, DetachedAt(ShortHash), DetachedAt(TagParen), DetachedFrom(ShortHash),
     HeadDetached}

DetachedFacts ==
    {CompareOutput(lv, rv, HashA, IF rv = Empty THEN Empty ELSE HashA,
                   IF rv = Empty THEN Empty ELSE Origin, 0, 0,
                   un, FALSE, FALSE, FALSE) :
        lv \in DetachedVersions, rv \in RemoteVersions, un \in BOOLEAN}

PinnedManifests ==
    Dicts({PathB}, {[version |-> Main], [version |-> ShortHash],
                    [version |-> TagParen], [version |-> HashA]})

InitDetached ==
    /\ pc = "execute"
    /\ args \in [skip_equal : BOOLEAN, skip_hide_cols : {FALSE}]
    /\ manifest_file = ManifestName
    /\ manifest_exists = TRUE
    /\ manifest_per_path \in PinnedManifests
    /\ result = << >>
    /\ compare_output_per_path = << >>
    /\ entries = << >>
    /\ table = NoTable
    /\ renders = 0
    /\ builds = 0
    /\ first_build = [table |-> NoTable, entries |-> << >>]
    /\ stdout = << >>
    /\ stderr = << >>
    /\ exit = "running"

ExecuteDetached == ExecuteWith(Results({PathB}, DetachedFacts))

NextDetached ==
    \/ ExecuteDetached
    \/ GenerateEntries

SpecDetached == InitDetached /\ [][NextDetached]_vars

----------------------------------------------------------------------------
(* Properties *)

\* CompareTable.__init__ has returned
TableBuilt == pc = "built" \/ (pc = "done" /\ exit = "return0")

\* the entry has had should_abbreviate_version set
Abbreviated(e) ==
    "should_abbreviate_version" \in DOMAIN e /\ e.should_abbreviate_version

EntrySet == {entries[i].value : i \in 1..Len(entries)}

\* C1: with width fitting enabled, a finished table that still has a hideable
\* column (fewer than 6 hidden) is never wider than the budget.
C1_FitsWhileHideable ==
    (TableBuilt /\ table.should_hide_cols /\ table.cols_to_hide < 6)
        => _table_width(table) <= table.display_width

\* C1 witness: fitting hid some but not all columns and the table then fits
C1_Witness ==
    /\ TableBuilt
    /\ table.should_hide_cols
    /\ table.cols_to_hide \in 1..5
    /\ Len(table.rows) = 2
    /\ _table_width(table) <= table.display_width

\* C2: with width fitting disabled the phase-1 render is final whatever the
\* width: one render, no entry abbreviated, no column hidden, no IS_NARROWED.
C2_NoFittingSingleRender ==
    (builds >= 1 /\ ~table.should_hide_cols) =>
        /\ renders = 1
        /\ pc \in {"phase1", "built", "done"}
        /\ table.cols_to_hide = 0
        /\ "IS_NARROWED" \notin table.legend_flags
        /\ \A e \in EntrySet : ~Abbreviated(e)

\* C2 witness: fitting disabled and the finished table wider than the budget
C2_Witness ==
    /\ TableBuilt
    /\ ~table.should_hide_cols
    /\ Len(table.rows) = 2
    /\ _table_width(table) > table.display_width

\* the decision table of the tracking status, as the specification gives it
TrackingTable(remote_empty, ahead, behind) ==
    IF remote_empty THEN "LOCAL"
    ELSE CASE ahead = 0 /\ behind = 0 -> "EQUAL"
           [] ahead = 0 /\ behind > 0 -> "BEHIND"
           [] ahead > 0 /\ behind = 0 -> "AHEAD"
           [] ahead > 0 /\ behind > 0 -> "DIVERGED"
           [] OTHER -> "ERROR"

\* the four conditions of significance, read off a fact and its manifest version
SignificantBy(co, manifest_version) ==
    \/ co.unstaged_changes \/ co.staged_changes \/ co.untracked_files
    \/ TrackingTable(co.remote_version = Empty, co.ahead, co.behind) # "EQUAL"
    \/ manifest_version = None
    \/ manifest_version # co.local_version

\* C3: a tracked entry is significant iff it is dirty (stashes do not count),
\* or not EQUAL, or not NOMINAL, or its manifest version differs from
\* local_version; a MissingEntry is always significant; the clean "main"
\* scenario is NOMINAL, EQUAL and not significant.  The significant-only filter
\* keeps exactly the significant entries.
C3_Significance ==
    pc = "construct" =>
        /\ \A i \in 1..Len(compare_output_per_path) :
            LET path == compare_output_per_path[i].key
                co == compare_output_per_path[i].value
                mv == get_manifest_version(manifest_per_path, path)
                kept == path \in Keys(entries)
                e == Lookup(entries, path)
            IN /\ kept <=> (~args.skip_equal \/ SignificantBy(co, mv))
               /\ kept =>
                    /\ is_significant(e) <=>
                        \/ co.unstaged_changes \/ co.staged_changes
                        \/ co.untracked_files
                        \/ e.vcs_tracking_status # "EQUAL"
                        \/ e.repo_status # "NOMINAL"
                        \/ e.manifest_version # co.local_version
                    /\ is_significant(e) <=> SignificantBy(co, mv)
                    /\ (/\ co.local_version = Main /\ co.remote_version = Main
                        /\ co.ahead = 0 /\ co.behind = 0
                        /\ ~co.unstaged_changes /\ ~co.staged_changes
                        /\ ~co.untracked_files /\ mv = Main)
                       => /\ e.repo_status = "NOMINAL"
                          /\ e.vcs_tracking_status = "EQUAL"
                          /\ ~is_significant(e)
        /\ \A e \in EntrySet : e.kind = "missing" => is_significant(e)

\* C3 witness: the filter is on; the clean repository, which has a stash, was
\* dropped as insignificant while a missing entry was kept
C3_Witness ==
    /\ pc = "construct"
    /\ args.skip_equal
    /\ Keys(compare_output_per_path) = {PathB}
    /\ Lookup(compare_output_per_path, PathB).stashes
    /\ PathB \notin Keys(entries)
    /\ \E e \in EntrySet : e.kind = "missing"

\* C4: the tracking status follows the decision table for every
\* (remote_version empty?, ahead, behind); it is never ERROR for non-negative
\* counts, and for a negative count with a remote version it is the value
\* ERROR, rendered as the "ERR" marker.
C4_TrackingStatus ==
    \A e \in EntrySet : e.kind = "tracked" =>
        LET co == e.compare_output IN
        /\ e.vcs_tracking_status \in VcsTrackingStatus
        /\ e.vcs_tracking_status =
                TrackingTable(co.remote_version = Empty, co.ahead, co.behind)
        /\ (co.ahead >= 0 /\ co.behind >= 0) => e.vcs_tracking_status # "ERROR"
        /\ (co.remote_version # Empty /\ (co.ahead < 0 \/ co.behind < 0))
            => /\ e.vcs_tracking_status = "ERROR"
               /\ get_color_track(e) = Cell("redf", <<"E", "R", "R">>)
        /\ co.remote_version = Empty => e.vcs_tracking_status = "LOCAL"

\* C4 witness: an entry built from a fact with a negative count and a remote
C4_Witness ==
    \E e \in EntrySet :
        /\ e.kind = "tracked"
        /\ e.compare_output.behind < 0
        /\ e.compare_output.ahead > 0
        /\ e.compare_output.remote_version # Empty
        /\ e.vcs_tracking_status = "ERROR"

\* C5: generate_table_entries yields exactly one entry per path of the union
\* of fact paths and manifest paths: a tracked entry for every path with a fact
\* (UNTRACKED iff the path has no manifest entry, else NOMINAL), a missing
\* entry for every manifest path without a fact; only insignificant tracked
\* entries are left out, and only under the significant-only filter.
C5_OneEntryPerPath ==
    /\ ~(exit = "exception" /\ Len(compare_output_per_path) > 0
         /\ table = NoTable)
    /\ pc = "construct" =>
        /\ Keys(entries) \subseteq
                Keys(compare_output_per_path) \cup Keys(manifest_per_path)
        /\ Len(entries) = Cardinality(Keys(entries))
        /\ \A path \in Keys(compare_output_per_path) :
            IF path \in Keys(entries)
            THEN LET e == Lookup(entries, path) IN
                 /\ e.kind = "tracked"
                 /\ e.repo_status =
                        IF path \notin Keys(manifest_per_path)
                        THEN "UNTRACKED" ELSE "NOMINAL"
            ELSE args.skip_equal
        /\ \A path \in Keys(manifest_per_path) \ Keys(compare_output_per_path) :
            /\ path \in Keys(entries)
            /\ Lookup(entries, path).kind = "missing"

\* C6: main returns non-zero and prints nothing whenever the manifest cannot
\* be located, does not exist, cannot be read or parsed, or no repository
\* produced a usable fact; the configuration errors are reported and do not
\* escape as an exception.
C6_FailuresReturnNonZero ==
    (pc = "done" /\ Len(compare_output_per_path) = 0) =>
        /\ exit = "return1"
        /\ stdout = << >>
        /\ (manifest_file = None \/ ~manifest_exists) => stderr # << >>

\* the path shown in row r of the table (the Path column is never hidden)
RowPath(r) == table.rows[r][IndexOf(table.field_names, PATH_HEADER)].text

\* C7: the rows are in ascending path order whatever the insertion order of
\* the entry map, in every phase; and a second table built from the same
\* entry objects with the same budget and flag ends equal to the first (same
\* abbreviation state, hidden columns, rows and legend flags).
C7_Deterministic ==
    /\ builds >= 1 =>
        /\ Len(table.rows) = Len(entries)
        /\ {RowPath(r) : r \in 1..Len(table.rows)} = Keys(entries)
        /\ \A r1, r2 \in 1..Len(table.rows) :
                r1 < r2 => StrLess(RowPath(r1), RowPath(r2))
    /\ (pc = "built" /\ builds = 2) =>
        /\ table = first_build.table
        /\ entries = first_build.entries

\* C7 witness: a second build has finished on an entry map inserted in
\* descending path order, after the first build had to hide columns
C7_Witness ==
    /\ pc = "built"
    /\ builds = 2
    /\ Len(entries) = 2
    /\ StrLess(entries[2].key, entries[1].key)
    /\ first_build.table.cols_to_hide > 0
    /\ \E e \in EntrySet : Abbreviated(e)

\* the entry shown in row r
RowEntry(r) == Lookup(entries, Sorted(Keys(entries))[r])

\* the cell of row r under header h, << >> if the column is hidden
RowCell(r, h) ==
    IF \E i \in 1..Len(table.field_names) : table.field_names[i] = h
    THEN table.rows[r][IndexOf(table.field_names, h)].text
    ELSE << >>

Shown(h) == \E i \in 1..Len(table.field_names) : table.field_names[i] = h

\* the first 7 characters of a 40-character string, any other string as it is
ShortHashOf(x) == IF Len(x) = 40 THEN SubSeq(x, 1, 7) ELSE x

\* a version cut to 32 characters and "..." when it is longer than 35
ShortVersionOf(x) == IF Len(x) > 35 THEN SubSeq(x, 1, 32) \o <<".", ".", ".">> ELSE x

\* the local and remote cells of a tracked entry, given what is done to the
\* hashes and to the versions
LocalText(co, H(_), V(_)) ==
    H(co.local_hash) \o <<" ", "(">> \o V(co.local_version) \o <<")">>
RemoteText(co, H(_), V(_)) ==
    IF co.remote = Empty \/ co.remote_version = Empty THEN Empty
    ELSE H(co.remote_hash) \o <<" ", "(">> \o co.remote \o <<"/">>
         \o V(co.remote_version) \o <<")">>
ManifestText(e, H(_)) ==
    IF e.manifest_version = None THEN Empty ELSE H(e.manifest_version)

Same(x) == x

\* the phase-1 full render: the first render, no entry abbreviated yet
FullRender ==
    pc = "phase1" /\ builds = 1 /\ \A e \in EntrySet : ~Abbreviated(e)

\* C8 as stated: in the phase-1 full render all seven columns are shown and
\* every value is in full length, no version and no hash truncated.
C8_Phase1NothingTruncated ==
    FullRender =>
        /\ table.field_names = HEADERS \o <<DUMMY_END_HEADER>>
        /\ \A r \in 1..Len(table.rows) :
            LET e == RowEntry(r) IN
            IF e.kind = "missing"
            THEN RowCell(r, MANIFEST_VERSION_HEADER) = e.manifest_version
            ELSE /\ RowCell(r, LOCAL_VERSION_HEADER)
                        = LocalText(e.compare_output, Same, Same)
                 /\ RowCell(r, REMOTE_VERSION_HEADER)
                        = RemoteText(e.compare_output, Same, Same)
                 /\ RowCell(r, MANIFEST_VERSION_HEADER) = ManifestText(e, Same)

\* C8, amended: in the phase-1 full render all seven columns are shown and
\* every version string is in full length, while 40-character hash-looking
\* strings of tracked entries (local hash, remote hash, manifest version) are
\* cut to 7 characters already; in every render a version longer than 35
\* characters is cut exactly when abbreviation has been enabled on its entry,
\* and a missing entry's manifest version is never cut.
C8_Phase1VersionsFull ==
    /\ FullRender => table.field_names = HEADERS \o <<DUMMY_END_HEADER>>
    /\ builds >= 1 =>
        \A r \in 1..Len(table.rows) :
            LET e == RowEntry(r) IN
            IF e.kind = "missing"
            THEN Shown(MANIFEST_VERSION_HEADER) =>
                    RowCell(r, MANIFEST_VERSION_HEADER) = e.manifest_version
            ELSE /\ Shown(LOCAL_VERSION_HEADER) =>
                    RowCell(r, LOCAL_VERSION_HEADER) =
                        IF Abbreviated(e)
                        THEN LocalText(e.compare_output, ShortHashOf, ShortVersionOf)
                        ELSE LocalText(e.compare_output, ShortHashOf, Same)
                 /\ Shown(REMOTE_VERSION_HEADER) =>
                    RowCell(r, REMOTE_VERSION_HEADER) =
                        IF Abbreviated(e)
                        THEN RemoteText(e.compare_output, ShortHashOf, ShortVersionOf)
                        ELSE RemoteText(e.compare_output, ShortHashOf, Same)
                 /\ Shown(MANIFEST_VERSION_HEADER) =>
                    RowCell(r, MANIFEST_VERSION_HEADER) = ManifestText(e, ShortHashOf)

\* C8 witness: the full render of a tracked entry whose local version is longer
\* than 35 characters (shown whole) and whose local hash has 40 (shown cut)
C8_Witness ==
    /\ FullRender
    /\ \E r \in 1..Len(table.rows) :
        LET e == RowEntry(r) IN
        /\ e.kind = "tracked"
        /\ Len(e.compare_output.local_version) > 35
        /\ Len(e.compare_output.local_hash) = 40
        /\ e.manifest_version # None /\ Len(e.manifest_version) = 40
        /\ Len(RowCell(r, LOCAL_VERSION_HEADER))
                = 7 + 2 + Len(e.compare_output.local_version) + 1
        /\ Len(RowCell(r, MANIFEST_VERSION_HEADER)) = 7

\* the getter that fills the column of header h
CellUnder(e, h) ==
    CASE h = STATUS_HEADER -> get_color_repo_status(e)
      [] h = PATH_HEADER -> get_color_path(e)
      [] h = FLAGS_HEADER -> get_color_vcs_tracking_flags(e)
      [] h = MANIFEST_VERSION_HEADER -> get_color_manifest_version(e)
      [] h = LOCAL_VERSION_HEADER -> get_color_local_version(e)
      [] h = TRACKING_STATUS_HEADER -> get_color_track(e)
      [] h = REMOTE_VERSION_HEADER -> get_color_remote_version(e)

\* the hide order as the specification lists it
HideOrder ==
    <<"Remote Version", "Manifest", "Ah/Bh", "Local Version", "Flags", "S">>

\* the headers in their original order without the first k of the hide order
HeadersWithout(k) ==
    LET Kept(h) == \A i \in 1..k : HideOrder[i] # h
    IN SelectSeq(<<"S", "Path", "Flags", "Manifest", "Local Version", "Ah/Bh",
                   "Remote Version">>, Kept)

\* C9: for every hidden-column count k in 0..6 the hidden columns are the
\* first k of Remote Version, Manifest, Ah/Bh, Local Version, Flags, Status;
\* Path and the trailing dummy column stay; headers and every row have 8 - k
\* cells, each remaining cell under the header of its own column.
C9_ColumnsAligned ==
    builds >= 1 =>
        LET k == table.cols_to_hide IN
        /\ k \in 0..6
        /\ table.field_names = HeadersWithout(k) \o <<"">>
        /\ Shown(PATH_HEADER)
        /\ Len(table.field_names) = 8 - k
        /\ \A r \in 1..Len(table.rows) :
            /\ Len(table.rows[r]) = 8 - k
            /\ table.rows[r][8 - k] = DUMMY_END_ROW
            /\ \A i \in 1..(7 - k) :
                LET cell == CellUnder(RowEntry(r), table.field_names[i]) IN
                /\ table.rows[r][i].text = cell.text
                /\ table.rows[r][i].fg = cell.fg

\* C9 witness: a render with three columns hidden, of a tracked and a missing row
C9_Witness ==
    /\ builds >= 1
    /\ table.cols_to_hide = 3
    /\ table.field_names = <<"S", "Path", "Flags", "Local Version", "">>
    /\ Len(table.rows) = 2
    /\ {RowEntry(r).kind : r \in 1..2} = {"tracked", "missing"}

\* C10: the legend flags are exactly MISSING_REPO iff a missing entry is among
\* the rows, VCS_TRACKING_STATUS iff some row is not EQUAL or has any of the
\* unstaged/staged/untracked/stashes flags, REPO_STATUS iff some row is not
\* nominal (a missing row included), IS_NARROWED iff columns are hidden; they
\* are those of the current render alone.
C10_LegendFlags ==
    builds >= 1 =>
        /\ Len(table.rows) = Len(entries)
        /\ table.legend_flags \subseteq LegendFlags
        /\ "MISSING_REPO" \in table.legend_flags
            <=> \E e \in EntrySet : e.kind = "missing"
        /\ "VCS_TRACKING_STATUS" \in table.legend_flags
            <=> \E e \in EntrySet :
                    /\ e.kind = "tracked"
                    /\ \/ e.vcs_tracking_status # "EQUAL"
                       \/ e.compare_output.unstaged_changes
                       \/ e.compare_output.staged_changes
                       \/ e.compare_output.untracked_files
                       \/ e.compare_output.stashes
        /\ "REPO_STATUS" \in table.legend_flags
            <=> \E e \in EntrySet :
                    e.kind = "missing" \/ e.repo_status # "NOMINAL"
        /\ "IS_NARROWED" \in table.legend_flags <=> table.cols_to_hide > 0

\* C10 witness: a finished, narrowed table whose only rows are nominal, EQUAL
\* and without flags: IS_NARROWED is the one flag set
C10_Witness ==
    /\ TableBuilt
    /\ table.cols_to_hide > 0
    /\ Len(table.rows) = 2
    /\ table.legend_flags = {"IS_NARROWED"}

----------------------------------------------------------------------------
(* Detached-head normalization *)

\* the text is "(HEAD detached at X)" for a non-empty X without white space
IsDetachedForm(s) ==
    /\ IsPrefix(DetachedPrefix, s)
    /\ Len(s) >= Len(DetachedPrefix) + 2
    /\ s[Len(s)] = ")"
    /\ \A i \in (Len(DetachedPrefix) + 1)..(Len(s) - 1) : s[i] \notin Whitespace

\* the X of "(HEAD detached at X)"
DetachedAtWhat(s) == SubSeq(s, Len(DetachedPrefix) + 1, Len(s) - 1)

\* the fact as the normalization is specified to leave it
Normalized(co) ==
    IF IsDetachedForm(co.local_version)
    THEN [co EXCEPT !.local_version = HeadDetached,
                    !.local_hash = DetachedAtWhat(co.local_version)]
    ELSE co

\* C11: in the step that builds the entries, every fact whose local_version is
\* "(HEAD detached at X)" ends with local_version "HEAD detached" and
\* local_hash X and its other fields as they were, every other fact ends as it
\* was, normalizing the result again changes nothing, and the entry built
\* from the fact (its stored fact, its is-local-current flag, and whether the
\* significant-only filter kept it) is the one of the normalized fact.
C11_Normalization ==
    [][(pc = "generate" /\ pc' = "construct") =>
        \A i \in 1..Len(compare_output_per_path) :
            LET path == compare_output_per_path[i].key
                raw == compare_output_per_path[i].value
                fixed == compare_output_per_path'[i].value
                mv == get_manifest_version(manifest_per_path, path)
            IN /\ compare_output_per_path'[i].key = path
               /\ IsDetachedForm(raw.local_version) =>
                    /\ fixed.local_version = HeadDetached
                    /\ fixed.local_hash = DetachedAtWhat(raw.local_version)
                    /\ [fixed EXCEPT !.local_version = raw.local_version,
                                     !.local_hash = raw.local_hash] = raw
               /\ ~IsDetachedForm(raw.local_version) => fixed = raw
               /\ fix_detached_head(fixed) = fixed
               /\ path \in Keys(entries') <=>
                    (~args.skip_equal \/ SignificantBy(Normalized(raw), mv))
               /\ path \in Keys(entries') =>
                    LET e == Lookup(entries', path) IN
                    /\ e.kind = "tracked"
                    /\ e.compare_output = Normalized(raw)
                    /\ e.is_local_current_with_manifest <=>
                         mv \in {Normalized(raw).local_version,
                                 Normalized(raw).local_hash}
                    /\ is_significant(e) <=> SignificantBy(Normalized(raw), mv)
      ]_vars

\* C11 witness: the entries are built; the repository was detached at a tag
\* the manifest pins, and its entry holds "HEAD detached", the tag as
\* local_hash, and is current with the manifest
C11_Witness ==
    /\ pc = "construct"
    /\ PathB \in Keys(entries)
    /\ LET e == Lookup(entries, PathB) IN
        /\ e.kind = "tracked"
        /\ e.compare_output.local_version = HeadDetached
        /\ e.compare_output.local_hash = TagParen
        /\ e.manifest_version = TagParen
        /\ e.is_local_current_with_manifest

----------------------------------------------------------------------------
(* The order of the degrade phases *)

\* a CompareTable construction is under way or has returned
InTable == pc \in {"phase1", "phase2", "loop", "built"} \/ (pc = "done" /\ exit = "return0")

\* the entry map as generate_table_entries returns it for the facts and the
\* manifest of this run
Generated ==
    generate_table_entries(compare_output_per_path, manifest_per_path,
                           args.skip_equal)

\* an entry map with should_abbreviate_version true on every entry
FlagSet(ents) ==
    [i \in 1..Len(ents) |->
        [key |-> ents[i].key,
         value |-> [f \in DOMAIN ents[i].value \cup {"should_abbreviate_version"} |->
                        IF f = "should_abbreviate_version" THEN TRUE
                        ELSE ents[i].value[f]]]]

\* does the render of ents with k columns hidden fit the budget of the table
FitsAt(k, ents) ==
    _table_width(_reset_and_add_entries([table EXCEPT !.cols_to_hide = k], ents))
        <= table.display_width

\* the least k in 0..6 whose abbreviated render fits, 6 if none does
LeastFit ==
    IF \E k \in 0..6 : FitsAt(k, FlagSet(Generated))
    THEN CHOOSE k \in 0..6 :
            /\ FitsAt(k, FlagSet(Generated))
            /\ \A j \in 0..(k - 1) : ~FitsAt(j, FlagSet(Generated))
    ELSE 6

\* C12: in a construction, the entries are abbreviated only after the full
\* render exceeded the budget (and then all of them are), a column is hidden
\* only after the abbreviated render with every column exceeded it, the
\* counter is the number of re-renders after the abbreviated one, the
\* construction returns at the first render that fits, and with fitting
\* enabled the final counter is the least k in 0..6 whose abbreviated render
\* fits, or 6.
C12_PhasesInOrder ==
    (builds = 1 /\ InTable) =>
        /\ renders = 1 =>
            /\ table.cols_to_hide = 0
            /\ \A e \in EntrySet : ~Abbreviated(e)
        /\ renders >= 2 =>
            /\ table.should_hide_cols
            /\ ~FitsAt(0, Generated)
            /\ \A e \in EntrySet : Abbreviated(e)
            /\ entries = FlagSet(Generated)
            /\ renders = 2 + table.cols_to_hide
            /\ \A j \in 0..(table.cols_to_hide - 1) : ~FitsAt(j, entries)
        /\ table.cols_to_hide \in 0..6
        /\ (TableBuilt /\ table.should_hide_cols) =>
            /\ renders = 1 <=> FitsAt(0, Generated)
            /\ table.cols_to_hide = LeastFit
        /\ (TableBuilt /\ ~table.should_hide_cols) => table.cols_to_hide = 0

\* C12 witness: the table was returned after the full render, the abbreviated
\* render and three more renders, the last of which is the first to fit
C12_Witness ==
    /\ TableBuilt
    /\ Len(entries) = 2
    /\ renders = 5
    /\ table.cols_to_hide = 3
    /\ \A e \in EntrySet : Abbreviated(e)
    /\ ~FitsAt(2, entries)
    /\ FitsAt(3, entries)

----------------------------------------------------------------------------
(* Termination of the render loop *)

\* how far a construction has come: it grows with every step of __init__ and
\* is at most 10 when __init__ returns
Progress ==
    CASE pc = "construct" -> 0
      [] pc = "phase1" -> 1
      [] pc = "phase2" -> 2
      [] pc = "loop" -> 1 + renders
      [] OTHER -> 10

\* C13: every step of a construction brings it nearer to its return, which
\* comes after at most 1 + 1 + 6 = 8 renders whatever the entries and the
\* budget; an iteration of the loop adds exactly one render and one hidden
\* column; the counter never exceeds 6 and the assertion of get_headers
\* never fails.
C13_RenderLoopTerminates ==
    [][(pc \in {"construct", "phase1", "phase2", "loop"}) =>
        /\ Progress' > Progress
        /\ pc' \in {"phase1", "phase2", "loop", "built"}
        /\ exit' = exit
        /\ renders' \in 1..(1 + 1 + MAX_HIDE_COLUMNS)
        /\ renders' \in {renders, renders + 1}
        /\ table'.cols_to_hide <= 6
        /\ HeadersAssertion(table'.cols_to_hide)
        /\ (pc = "loop" /\ pc' = "loop") =>
            /\ renders' = renders + 1
            /\ table'.cols_to_hide = table.cols_to_hide + 1
        /\ (pc = "loop" /\ pc' = "built") =>
            (_table_width(table) <= table.display_width \/ table.cols_to_hide = 6)
      ]_vars

\* C13 witness: the table was returned after eight renders with six columns
\* hidden and is still wider than a budget below zero
C13_Witness ==
    /\ TableBuilt
    /\ renders = 8
    /\ table.cols_to_hide = 6
    /\ table.should_hide_cols
    /\ table.display_width < 0
    /\ _table_width(table) > table.display_width

----------------------------------------------------------------------------
(* The entry map during rendering *)

\* the entry without its should_abbreviate_version attribute
WithoutFlag(e) == [f \in DOMAIN e \ {"should_abbreviate_version"} |-> e[f]]

\* C14 (as claimed): from the first render to the printed report the entry
\* map is the one generate_table_entries returned: same keys, same state of
\* every entry.
C14_EntriesUnchanged ==
    InTable => entries = Generated

\* C14 (amended): from the first render to the printed report the entry map
\* has the keys, in the order, that generate_table_entries returned, and
\* every entry has the state it was generated with except
\* should_abbreviate_version, which is true on every entry (tracked or
\* missing) once the full render exceeded the budget and as generated until
\* then.
C14_OnlyFlagChanges ==
    InTable =>
        /\ KeyList(entries) = KeyList(Generated)
        /\ \A i \in 1..Len(entries) :
            /\ WithoutFlag(entries[i].value) = WithoutFlag(Generated[i].value)
            /\ renders = 1 => entries[i].value = Generated[i].value
            /\ renders >= 2 => Abbreviated(entries[i].value)
        /\ renders >= 2 => (table.should_hide_cols /\ ~FitsAt(0, Generated))

\* C14 witness: the report is printed; a tracked and a missing entry both
\* carry the flag now, and are otherwise as generated
C14_Witness ==
    /\ pc = "done"
    /\ exit = "return0"
    /\ stdout # << >>
    /\ renders >= 2
    /\ entries # Generated
    /\ \E e \in EntrySet : e.kind = "tracked" /\ e.should_abbreviate_version
    /\ \E e \in EntrySet : e.kind = "missing" /\ Abbreviated(e)

----------------------------------------------------------------------------
(* Repositories whose compare command failed *)

\* the results without the i-th
Without(results, i) == SubSeq(results, 1, i - 1) \o SubSeq(results, i + 1, Len(results))

\* the row of the table that shows the path
RowOf(path) == CHOOSE r \in 1..Len(table.rows) : RowPath(r) = path

\* C15: a repository whose compare command failed has no fact and never a
\* tracked entry; the generated entries are those of the results without the
\* failed one; and if the manifest declares its path (and some other
\* repository produced a fact) the failure is not fatal: the entries hold a
\* MissingEntry for the path, with or without the significant-only filter,
\* and the table shows its row with the "M" symbol (while the status column
\* is shown) and sets MISSING_REPO, which prints the import tip.
C15_FailedBecomesMissing ==
    \A i \in 1..Len(result) :
        result[i].returncode # 0 =>
            LET path == result[i].path
                others == filter_compare_output_per_path(<< >>, Without(result, i), 1)
            IN /\ path \notin Keys(compare_output_per_path)
               /\ path \in Keys(entries) => Lookup(entries, path).kind # "tracked"
               /\ pc = "construct" =>
                    entries = generate_table_entries(others, manifest_per_path,
                                                     args.skip_equal)
               /\ (path \in Keys(manifest_per_path) /\ Len(compare_output_per_path) > 0) =>
                    /\ ~(pc = "done" /\ exit = "exception")
                    /\ (pc = "construct" \/ InTable) =>
                        /\ path \in Keys(entries)
                        /\ Lookup(entries, path).kind = "missing"
                    /\ InTable =>
                        /\ "MISSING_REPO" \in table.legend_flags
                        /\ \E r \in 1..Len(table.rows) : RowPath(r) = path
                        /\ Shown(STATUS_HEADER) =>
                                RowCell(RowOf(path), STATUS_HEADER) = <<"M">>

----------------------------------------------------------------------------
(* Current with the manifest *)

\* the entry with both is-current flags inverted
FlagsInverted(e) ==
    [e EXCEPT !.is_local_current_with_manifest = ~@,
              !.is_remote_current_with_manifest = ~@]

\* C16: a repository whose manifest version equals its local_hash but not its
\* local_version always has an entry, also under the significant-only filter:
\* the entry is current with the manifest and significant, even when clean,
\* NOMINAL and EQUAL.  RepoStatus, tracking status, significance and legend
\* flags of every entry are those of its fact and manifest version, and would
\* be the same with the is-current flags inverted.
C16_CurrentStillSignificant ==
    pc = "construct" =>
        \A i \in 1..Len(compare_output_per_path) :
            LET path == compare_output_per_path[i].key
                co == compare_output_per_path[i].value
                mv == get_manifest_version(manifest_per_path, path)
            IN /\ (mv = co.local_hash /\ mv # co.local_version) =>
                    /\ path \in Keys(entries)
                    /\ Lookup(entries, path).is_local_current_with_manifest
                    /\ is_significant(Lookup(entries, path))
               /\ path \in Keys(entries) =>
                    LET e == Lookup(entries, path) IN
                    /\ e.repo_status = (IF mv = None THEN "UNTRACKED" ELSE "NOMINAL")
                    /\ e.vcs_tracking_status =
                            TrackingTable(co.remote_version = Empty, co.ahead, co.behind)
                    /\ is_significant(e) <=> SignificantBy(co, mv)
                    /\ is_significant(FlagsInverted(e)) <=> is_significant(e)
                    /\ get_legend_flags(FlagsInverted(e)) = get_legend_flags(e)
                    /\ get_color_repo_status(FlagsInverted(e)) = get_color_repo_status(e)
                    /\ get_color_track(FlagsInverted(e)).text = get_color_track(e).text

\* C16 witness: under the significant-only filter, a clean, NOMINAL, EQUAL
\* checkout detached at the commit the manifest pins is kept; its current
\* flags decide the color of the remote version
C16_Witness ==
    /\ pc = "construct"
    /\ args.skip_equal
    /\ PathB \in Keys(entries)
    /\ LET e == Lookup(entries, PathB) IN
        /\ e.kind = "tracked"
        /\ e.compare_output.local_version = HeadDetached
        /\ e.compare_output.local_hash = ShortHash
        /\ e.manifest_version = ShortHash
        /\ e.is_local_current_with_manifest
        /\ ~_is_dirty(e)
        /\ e.repo_status = "NOMINAL"
        /\ e.vcs_tracking_status = "EQUAL"
        /\ get_color_remote_version(FlagsInverted(e)) # get_color_remote_version(e)

====
